---------------------------- MODULE Spec2Model ----------------------------
(***************************************************************************)
(* Model of the unpaid-leave eligibility tool                              *)
(* (src/src/common/eligibility_engine.rs, src/src/common/metrics.rs).      *)
(*                                                                         *)
(* Four specifications share this module:                                  *)
(*   SpecCoerce   the serde coercion of the caller payload                 *)
(*   SpecExtract  the validation-error extractor on diagnostic texts       *)
(*   Spec         the tool handler with its metrics, for several           *)
(*                concurrent invocations                                   *)
(*   SpecFair     Spec with the blocking tasks running to their end        *)
(*                                                                         *)
(* Strings are sequences of one-character strings.  Diagnostic texts are   *)
(* sequences of tokens, each token standing for a literal piece of text.   *)
(***************************************************************************)
EXTENDS Integers, Sequences, FiniteSets, TLC

VARIABLES
    cin,                  \* SpecCoerce: the JSON arguments object being deserialized
    cout,                 \* SpecCoerce: the result of deserializing it
    xop,                  \* SpecExtract: the extractor function applied
    xerr,                 \* SpecExtract: the engine error it is applied to
    xdone,                \* SpecExtract: whether it has been applied
    xout,                 \* SpecExtract: what it returned
    pc,                   \* Spec: where each invocation is
    payload,              \* Spec: the JSON arguments of each invocation
    task,                 \* Spec: the state of each invocation's blocking task
    response,             \* Spec: what each invocation returned
    artifact,             \* Spec: the decision table bundled into the build
    table_loads,          \* Spec: how many times the table has been parsed
    requests_total,       \* METRICS.requests_total
    errors_total,         \* METRICS.errors_total
    active_requests,      \* METRICS.active_requests
    request_duration      \* METRICS.request_duration: number of observations

coerceVars == <<cin, cout>>
extractVars == <<xop, xerr, xdone, xout>>
reqVars == <<pc, payload, task, response>>
tableVars == <<artifact, table_loads>>
metricVars == <<requests_total, errors_total, active_requests, request_duration>>
vars == <<cin, cout, xop, xerr, xdone, xout, pc, payload, task, response,
          artifact, table_loads,
          requests_total, errors_total, active_requests, request_duration>>

----------------------------------------------------------------------------
(* Bounds *)

MaxPad == 1        \* spaces put before or after a boolean string
MaxNumLen == 3     \* length of the strings given as total_children_after
MaxSegs == 3       \* pieces a diagnostic text is put together from
MaxReqs == 2       \* concurrent invocations of the tool

----------------------------------------------------------------------------
(* Characters and strings *)

UpperLetters == <<"A","B","C","D","E","F","G","H","I","J","K","L","M",
                  "N","O","P","Q","R","S","T","U","V","W","X","Y","Z">>
LowerLetters == <<"a","b","c","d","e","f","g","h","i","j","k","l","m",
                  "n","o","p","q","r","s","t","u","v","w","x","y","z">>

IsUpper(c) == \E i \in 1..26 : UpperLetters[i] = c
IsLower(c) == \E i \in 1..26 : LowerLetters[i] = c

LowerChar(c) ==
    IF IsUpper(c) THEN LowerLetters[CHOOSE i \in 1..26 : UpperLetters[i] = c] ELSE c
UpperChar(c) ==
    IF IsLower(c) THEN UpperLetters[CHOOSE i \in 1..26 : LowerLetters[i] = c] ELSE c

\* str::to_lowercase
to_lowercase(s) == [i \in 1..Len(s) |-> LowerChar(s[i])]

\* s is the lower-case word w written in any mix of upper and lower case
EqIgnoreCase(s, w) ==
    /\ Len(s) = Len(w)
    /\ \A i \in 1..Len(w) : s[i] = w[i] \/ s[i] = UpperChar(w[i])

Digits == <<"0","1","2","3","4","5","6","7","8","9">>
IsDigit(c) == \E i \in 1..10 : Digits[i] = c
DigitVal(c) == (CHOOSE i \in 1..10 : Digits[i] = c) - 1

RECURSIVE DigitsVal(_)
\* the value of a sequence of decimal digits
DigitsVal(ds) ==
    IF ds = <<>> THEN 0
    ELSE 10 * DigitsVal(SubSeq(ds, 1, Len(ds) - 1)) + DigitVal(ds[Len(ds)])

AllDigits(ds) == \A i \in 1..Len(ds) : IsDigit(ds[i])

\* the first index of s holding one of the characters cs, 0 when there is none
FirstIndex(s, cs) ==
    IF \E i \in 1..Len(s) : s[i] \in cs
    THEN CHOOSE i \in 1..Len(s) : s[i] \in cs /\ \A j \in 1..(i - 1) : s[j] \notin cs
    ELSE 0

Str(word) == <<word>>      \* a string whose characters the model never inspects

----------------------------------------------------------------------------
(* JSON values of the arguments object, and f64 values *)

NoStr == <<>>
JBool(b) == [kind |-> "bool", b |-> b, s |-> NoStr, mant |-> 0, exp |-> 0]
JStr(s) == [kind |-> "str", b |-> FALSE, s |-> s, mant |-> 0, exp |-> 0]
JInt(n) == [kind |-> "int", b |-> FALSE, s |-> NoStr, mant |-> n, exp |-> 0]
JFloat(m, e) == [kind |-> "float", b |-> FALSE, s |-> NoStr, mant |-> m, exp |-> e]
JNull == [kind |-> "null", b |-> FALSE, s |-> NoStr, mant |-> 0, exp |-> 0]
\* the key is not in the arguments object
Absent == [kind |-> "absent", b |-> FALSE, s |-> NoStr, mant |-> 0, exp |-> 0]

\* An f64: mant * 10^exp with the sign apart, or an infinity, or NaN.
RECURSIVE Normalize(_, _, _)
Normalize(neg, m, e) ==
    IF m = 0 THEN [cls |-> "num", neg |-> neg, mant |-> 0, exp |-> 0]
    ELSE IF m % 10 = 0 THEN Normalize(neg, m \div 10, e + 1)
    ELSE [cls |-> "num", neg |-> neg, mant |-> m, exp |-> e]
Infinity(neg) == [cls |-> "inf", neg |-> neg, mant |-> 0, exp |-> 0]
NaN == [cls |-> "nan", neg |-> FALSE, mant |-> 0, exp |-> 0]
NoF64 == [cls |-> "none", neg |-> FALSE, mant |-> 0, exp |-> 0]

\* i64 / u64 `as f64`
IntAsF64(n) == IF n < 0 THEN Normalize(TRUE, -n, 0) ELSE Normalize(FALSE, n, 0)
FloatAsF64(m, e) == IF m < 0 THEN Normalize(TRUE, -m, e) ELSE Normalize(FALSE, m, e)

----------------------------------------------------------------------------
(* str::parse::<f64>: Sign? ( 'inf' | 'infinity' | 'nan' | Number ),        *)
(* Number ::= ( Digit+ | Digit+ '.' Digit* | Digit* '.' Digit+ ) Exp?,      *)
(* Exp ::= 'e' Sign? Digit+.  No blank is skipped.                          *)

ParseFail == [ok |-> FALSE, val |-> NoF64]
ParseOk(v) == [ok |-> TRUE, val |-> v]

HasSign(s) == Len(s) > 0 /\ s[1] \in {"+", "-"}
Unsigned(s) == IF HasSign(s) THEN SubSeq(s, 2, Len(s)) ELSE s

\* the exponent Sign? Digit+ : [ok, val]
ParseExp(s) ==
    LET ds == Unsigned(s) IN
    IF ds = <<>> \/ ~AllDigits(ds) THEN [ok |-> FALSE, val |-> 0]
    ELSE [ok |-> TRUE, val |-> IF HasSign(s) /\ s[1] = "-" THEN -DigitsVal(ds) ELSE DigitsVal(ds)]

ParseNumber(neg, s) ==
    LET epos == FirstIndex(s, {"e", "E"})
        mpart == IF epos = 0 THEN s ELSE SubSeq(s, 1, epos - 1)
        ex == IF epos = 0 THEN [ok |-> TRUE, val |-> 0]
              ELSE ParseExp(SubSeq(s, epos + 1, Len(s)))
        dot == FirstIndex(mpart, {"."})
        ip == IF dot = 0 THEN mpart ELSE SubSeq(mpart, 1, dot - 1)
        fp == IF dot = 0 THEN <<>> ELSE SubSeq(mpart, dot + 1, Len(mpart))
    IN  IF /\ ex.ok
           /\ AllDigits(ip) /\ AllDigits(fp)
           /\ Len(ip) + Len(fp) > 0
        THEN ParseOk(Normalize(neg, DigitsVal(ip \o fp), ex.val - Len(fp)))
        ELSE ParseFail

ParseF64(s) ==
    LET neg == HasSign(s) /\ s[1] = "-"
        body == Unsigned(s)
        low == to_lowercase(body)
    IN  IF low = <<"i","n","f">> \/ low = <<"i","n","f","i","n","i","t","y">>
        THEN ParseOk(Infinity(neg))
        ELSE IF low = <<"n","a","n">> THEN ParseOk(NaN)
        ELSE ParseNumber(neg, body)

----------------------------------------------------------------------------
(* The serde visitors of the two coerced fields.  A result is              *)
(* [ok, b, some, val, err, arg]: err names the failure and arg is the       *)
(* value the error message is formatted with.                               *)

BoolOk(b) == [ok |-> TRUE, b |-> b, some |-> FALSE, val |-> NoF64,
              err |-> "", arg |-> NoStr]
NumOk(v) == [ok |-> TRUE, b |-> FALSE, some |-> TRUE, val |-> v,
             err |-> "", arg |-> NoStr]
NumNone == [ok |-> TRUE, b |-> FALSE, some |-> FALSE, val |-> NoF64,
            err |-> "", arg |-> NoStr]
DeErr(err, arg) == [ok |-> FALSE, b |-> FALSE, some |-> FALSE, val |-> NoF64,
                    err |-> err, arg |-> arg]

\* visit_str taking every string that is not "true" for false
BoolVisitStr_Lenient(value) ==
    IF to_lowercase(value) = <<"t","r","u","e">> THEN BoolOk(TRUE) ELSE BoolOk(FALSE)

\* visit_str comparing the value as written, without to_lowercase
BoolVisitStr_CaseSensitive(value) ==
    IF value = <<"t","r","u","e">> THEN BoolOk(TRUE)
    ELSE IF value = <<"f","a","l","s","e">> THEN BoolOk(FALSE)
    ELSE DeErr("invalid boolean string: ", value)

\* BoolOrStringVisitor::visit_str
BoolVisitStr(value) ==
    LET low == to_lowercase(value) IN
    IF low = <<"t","r","u","e">> THEN BoolOk(TRUE)
    ELSE IF low = <<"f","a","l","s","e">> THEN BoolOk(FALSE)
    ELSE DeErr("invalid boolean string: ", value)

\* deserialize_bool_or_string: deserialize_any with BoolOrStringVisitor
deserialize_bool_or_string(v) ==
    CASE v.kind = "bool" -> BoolOk(v.b)
      [] v.kind = "str" -> BoolVisitStr(v.s)
      [] OTHER -> DeErr("invalid type, expected bool or string", NoStr)

\* F64OrStringVisitor::visit_str
F64VisitStr(value) ==
    LET p == ParseF64(value) IN
    IF p.ok THEN NumOk(p.val) ELSE DeErr("invalid number string: ", value)

\* deserialize_f64_or_string: deserialize_any with F64OrStringVisitor
deserialize_f64_or_string(v) ==
    CASE v.kind = "float" -> NumOk(FloatAsF64(v.mant, v.exp))
      [] v.kind = "int" -> NumOk(IntAsF64(v.mant))
      [] v.kind = "str" -> F64VisitStr(v.s)
      [] v.kind = "null" -> NumNone
      [] OTHER -> DeErr("invalid type, expected f64, string, or null", NoStr)

\* a String field without deserialize_with
deserialize_string(v) ==
    IF v.kind = "str" THEN [ok |-> TRUE, s |-> v.s, err |-> "", arg |-> NoStr]
    ELSE [ok |-> FALSE, s |-> NoStr, err |-> "invalid type, expected a string", arg |-> NoStr]

----------------------------------------------------------------------------
(* UnpaidLeaveDirectParams and its derived Deserialize.  The arguments     *)
(* object is a record of the four keys, each a JSON value or Absent.        *)

Args(rel, sit, isp, tca) ==
    [relationship |-> rel, situation |-> sit,
     is_single_parent |-> isp, total_children_after |-> tca]

NoParams == [relationship |-> NoStr, situation |-> NoStr,
             is_single_parent |-> FALSE, has_children |-> FALSE, children |-> NoF64]

ParamsOk(p) == [ok |-> TRUE, params |-> p, err |-> "", field |-> "", arg |-> NoStr]
ParamsErr(err, fld, arg) ==
    [ok |-> FALSE, params |-> NoParams, err |-> err, field |-> fld, arg |-> arg]
NotRun == [ok |-> FALSE, params |-> NoParams, err |-> "not run", field |-> "", arg |-> NoStr]

\* What the derived visitor does for a key the object does not hold:
\* a field with deserialize_with and no default is a missing-field error.
MissingTotalChildren == ParamsErr("missing field", "total_children_after", NoStr)

\* serde's derived Deserialize for UnpaidLeaveDirectParams, fed from a JSON
\* object whose keys come in sorted order; the keys the object lacks are
\* reported afterwards in declaration order.
DeserializeParams(a) ==
    LET isp == deserialize_bool_or_string(a.is_single_parent)
        rel == deserialize_string(a.relationship)
        sit == deserialize_string(a.situation)
        tca == deserialize_f64_or_string(a.total_children_after)
        here(v) == v.kind # "absent"
    IN  CASE here(a.is_single_parent) /\ ~isp.ok ->
                ParamsErr(isp.err, "is_single_parent", isp.arg)
          [] here(a.relationship) /\ ~rel.ok ->
                ParamsErr(rel.err, "relationship", rel.arg)
          [] here(a.situation) /\ ~sit.ok ->
                ParamsErr(sit.err, "situation", sit.arg)
          [] here(a.total_children_after) /\ ~tca.ok ->
                ParamsErr(tca.err, "total_children_after", tca.arg)
          [] ~here(a.relationship) -> ParamsErr("missing field", "relationship", NoStr)
          [] ~here(a.situation) -> ParamsErr("missing field", "situation", NoStr)
          [] ~here(a.is_single_parent) ->
                ParamsErr("missing field", "is_single_parent", NoStr)
          [] ~here(a.total_children_after) -> MissingTotalChildren
          [] OTHER ->
                ParamsOk([relationship |-> rel.s, situation |-> sit.s,
                          is_single_parent |-> isp.b,
                          has_children |-> tca.some, children |-> tca.val])

----------------------------------------------------------------------------
(* SpecCoerce: the inputs of the coercion *)

RECURSIVE Spaces(_)
Spaces(n) == IF n = 0 THEN <<>> ELSE <<" ">> \o Spaces(n - 1)

\* every way of writing the word w in upper and lower case
CaseVariants(w) ==
    {[i \in 1..Len(w) |-> IF i \in up THEN UpperChar(w[i]) ELSE w[i]] :
        up \in SUBSET (1..Len(w))}

BoolWords == {<<"t","r","u","e">>, <<"f","a","l","s","e">>, <<"m","a","y","b","e">>,
              <<"t","r","u">>, <<"y","e","s">>, <<"1">>, <<>>}

BoolStrings ==
    {Spaces(l) \o w \o Spaces(r) :
        l \in 0..MaxPad, r \in 0..MaxPad,
        w \in UNION {CaseVariants(b) : b \in BoolWords}}

BoolInputs ==
    {JBool(TRUE), JBool(FALSE), JNull, JInt(1), Absent} \cup {JStr(s) : s \in BoolStrings}

NumChars == {"0", "1", "5", ".", "-", "+", "e", "x", " "}

NumStrings ==
    UNION {[1..n -> NumChars] : n \in 0..MaxNumLen}
        \cup UNION {CaseVariants(w) : w \in {<<"i","n","f">>, <<"n","a","n">>}}
        \cup {<<"-","i","n","f">>, <<"i","n","f","i","n","i","t","y">>}

NumInputs ==
    {JNull, Absent, JBool(TRUE), JInt(0), JInt(3), JInt(-2), JFloat(25, -1), JFloat(-5, -1)}
        \cup {JStr(s) : s \in NumStrings}

Mother == JStr(Str("mother"))
Birth == JStr(Str("birth"))

CoerceInputs ==
    {Args(Mother, Birth, isp, JInt(3)) : isp \in BoolInputs}
        \cup {Args(Mother, Birth, JBool(FALSE), tca) : tca \in NumInputs}
        \cup {Args(Absent, Birth, JBool(FALSE), JNull), Args(Mother, JInt(1), JBool(TRUE), JNull)}

\* the state of the handler's variables while the coercion alone is studied
ReqIdle ==
    /\ pc = <<>> /\ payload = <<>> /\ task = <<>> /\ response = <<>>
    /\ artifact = <<>> /\ table_loads = 0
    /\ requests_total = 0 /\ errors_total = 0
    /\ active_requests = 0 /\ request_duration = 0

InitCoerce ==
    /\ cin \in CoerceInputs
    /\ cout = NotRun
    /\ xop = "none" /\ xerr = [kind |-> "other", node_id |-> <<>>, text |-> <<>>]
    /\ xdone = FALSE
    /\ xout = [some |-> FALSE, errors |-> <<>>, panic |-> FALSE, spans |-> <<>>]
    /\ ReqIdle

\* Parameters<UnpaidLeaveDirectParams>: the arguments object is deserialized
Coerce ==
    /\ cout = NotRun
    /\ cout' = DeserializeParams(cin)
    /\ UNCHANGED <<cin, extractVars, reqVars, tableVars, metricVars>>

NextCoerce == Coerce

SpecCoerce == InitCoerce /\ [][NextCoerce]_vars

----------------------------------------------------------------------------
(* Diagnostic texts.  A text is a sequence of tokens; each token is a      *)
(* literal piece of text, written here as the piece itself.  No token is a *)
(* proper part of a pattern the code searches for, so a substring search   *)
(* in the text is a search for a run of tokens.                            *)

LB == "{"
RB == "}"
LSQ == "["
RSQ == "]"
COMMA == ","
QUOTE == "\""
SRC == "\"source\":"
ERRS == "\"errors\":"
TYPEV == "\"type\":\"Validation\""
MSGQ == "\"message\":\""
PATHQ == "\"path\":\""
INOO == "is not one of"

\* the tokens that begin with a double quote
QuoteStart == {QUOTE, SRC, ERRS, TYPEV, MSGQ, PATHQ}

Min(S) == CHOOSE x \in S : \A y \in S : x <= y

\* str::find: the offset (from 0) of the first occurrence of pat, -1 for None
Find(text, pat) ==
    LET at == {i \in 0..(Len(text) - Len(pat)) : SubSeq(text, i + 1, i + Len(pat)) = pat}
    IN  IF at = {} THEN -1 ELSE Min(at)

\* str::contains
Contains(text, pat) == Find(text, pat) # -1

\* text[a..b] and text[a..]; a slice outside the text panics
SliceOk(text, a, b) == 0 <= a /\ a <= b /\ b <= Len(text)
Slice(text, a, b) == SubSeq(text, a + 1, b)
SliceFrom(text, a) == SubSeq(text, a + 1, Len(text))

\* str::split(','): the pieces between the commas, in order
RECURSIVE Split(_)
Split(text) ==
    LET c == Find(text, <<COMMA>>) IN
    IF c = -1 THEN <<text>>
    ELSE <<Slice(text, 0, c)>> \o Split(SliceFrom(text, c + 1))

----------------------------------------------------------------------------
(* serde_json::from_str::<ValidationErrorDetails>: a JSON reader on tokens *)
(* and the derived Deserialize of the three error structures.              *)

JNone == [t |-> "none"]
JFail == [ok |-> FALSE, next |-> 0, val |-> JNone]
JOk(n, v) == [ok |-> TRUE, next |-> n, val |-> v]

\* the index (from 1) of the first token at or after i that begins with a
\* double quote, 0 when there is none
NextQuote(t, i) ==
    LET at == {j \in i..Len(t) : t[j] \in QuoteStart}
    IN  IF at = {} THEN 0 ELSE Min(at)

\* the rest of a string whose opening quote was read: its content runs to
\* the next double quote, which must be a closing quote on its own
ReadString(t, i) ==
    LET q == NextQuote(t, i) IN
    IF q # 0 /\ t[q] = QUOTE
    THEN JOk(q + 1, [t |-> "str", s |-> SubSeq(t, i, q - 1)])
    ELSE JFail

RECURSIVE ReadValue(_, _), ReadMembers(_, _, _), ReadItems(_, _, _)

\* after the value read as r: a closing token ends the collection made of
\* acc and that value, a comma goes on at the token after it (0: neither)
AfterValue(t, r, close) ==
    IF ~r.ok \/ r.next > Len(t) THEN "fail"
    ELSE IF t[r.next] = close THEN "close"
    ELSE IF t[r.next] = COMMA THEN "more"
    ELSE "fail"

\* a JSON value starting at token i
ReadValue(t, i) ==
    IF i > Len(t) THEN JFail
    ELSE CASE t[i] = LB ->
                  IF i + 1 <= Len(t) /\ t[i + 1] = RB
                  THEN JOk(i + 2, [t |-> "obj", members |-> <<>>])
                  ELSE ReadMembers(t, i + 1, <<>>)
           [] t[i] = LSQ ->
                  IF i + 1 <= Len(t) /\ t[i + 1] = RSQ
                  THEN JOk(i + 2, [t |-> "arr", items |-> <<>>])
                  ELSE ReadItems(t, i + 1, <<>>)
           [] t[i] = QUOTE -> ReadString(t, i + 1)
           [] OTHER -> JFail

\* the member starting at token i: its key and the reading of its value
MemberAt(t, i) ==
    CASE t[i] = SRC -> [key |-> "source", r |-> ReadValue(t, i + 1)]
      [] t[i] = ERRS -> [key |-> "errors", r |-> ReadValue(t, i + 1)]
      [] t[i] = TYPEV ->
             [key |-> "type", r |-> JOk(i + 1, [t |-> "str", s |-> <<"Validation">>])]
      [] t[i] = MSGQ -> [key |-> "message", r |-> ReadString(t, i + 1)]
      [] t[i] = PATHQ -> [key |-> "path", r |-> ReadString(t, i + 1)]
      [] OTHER -> [key |-> "", r |-> JFail]

MembersWith(t, acc, m) ==
    CASE AfterValue(t, m.r, RB) = "close" ->
            JOk(m.r.next + 1,
                [t |-> "obj", members |-> Append(acc, [k |-> m.key, v |-> m.r.val])])
      [] AfterValue(t, m.r, RB) = "more" ->
            ReadMembers(t, m.r.next + 1, Append(acc, [k |-> m.key, v |-> m.r.val]))
      [] OTHER -> JFail

\* the members of an object from token i on, up to its closing brace
ReadMembers(t, i, acc) ==
    IF i > Len(t) THEN JFail ELSE MembersWith(t, acc, MemberAt(t, i))

ItemsWith(t, acc, r) ==
    CASE AfterValue(t, r, RSQ) = "close" ->
            JOk(r.next + 1, [t |-> "arr", items |-> Append(acc, r.val)])
      [] AfterValue(t, r, RSQ) = "more" ->
            ReadItems(t, r.next + 1, Append(acc, r.val))
      [] OTHER -> JFail

\* the items of an array from token i on, up to its closing bracket
ReadItems(t, i, acc) == ItemsWith(t, acc, ReadValue(t, i))

WholeText(t, r) ==
    IF r.ok /\ r.next = Len(t) + 1 THEN [ok |-> TRUE, val |-> r.val]
    ELSE [ok |-> FALSE, val |-> JNone]

\* the whole text is one JSON value
ReadJson(t) == WholeText(t, ReadValue(t, 1))

\* the values an object holds under key k, in order
Under(obj, k) ==
    LET at == {i \in 1..Len(obj.members) : obj.members[i].k = k}
        RECURSIVE Pick(_)
        Pick(i) == IF i > Len(obj.members) THEN <<>>
                   ELSE (IF i \in at THEN <<obj.members[i].v>> ELSE <<>>) \o Pick(i + 1)
    IN  Pick(1)

VE(message, path) == [message |-> message, path |-> path]
NoVE == VE(<<>>, <<>>)

\* struct ValidationError { message: String, path: String }
AsValidationError(v) ==
    CASE v.t = "obj" ->
            LET ms == Under(v, "message")
                ps == Under(v, "path")
            IN  IF /\ Len(ms) = 1 /\ Len(ps) = 1
                   /\ ms[1].t = "str" /\ ps[1].t = "str"
                THEN [ok |-> TRUE, ve |-> VE(ms[1].s, ps[1].s)]
                ELSE [ok |-> FALSE, ve |-> NoVE]
      [] v.t = "arr" ->
            IF /\ Len(v.items) = 2
               /\ v.items[1].t = "str" /\ v.items[2].t = "str"
            THEN [ok |-> TRUE, ve |-> VE(v.items[1].s, v.items[2].s)]
            ELSE [ok |-> FALSE, ve |-> NoVE]
      [] OTHER -> [ok |-> FALSE, ve |-> NoVE]

\* Vec<ValidationError>
ErrorListOf(rs) ==
    IF \A i \in 1..Len(rs) : rs[i].ok
    THEN [ok |-> TRUE, errors |-> [i \in 1..Len(rs) |-> rs[i].ve]]
    ELSE [ok |-> FALSE, errors |-> <<>>]
AsErrorList(v) ==
    IF v.t = "arr"
    THEN ErrorListOf([i \in 1..Len(v.items) |-> AsValidationError(v.items[i])])
    ELSE [ok |-> FALSE, errors |-> <<>>]

\* struct ValidationErrorSource { errors: Vec<ValidationError> }
AsSource(v) ==
    CASE v.t = "obj" ->
            LET es == Under(v, "errors") IN
            IF Len(es) = 1 THEN AsErrorList(es[1]) ELSE [ok |-> FALSE, errors |-> <<>>]
      [] v.t = "arr" ->
            IF Len(v.items) = 1 THEN AsErrorList(v.items[1])
            ELSE [ok |-> FALSE, errors |-> <<>>]
      [] OTHER -> [ok |-> FALSE, errors |-> <<>>]

\* struct ValidationErrorDetails { source, type }; keys it does not know
\* are skipped, a known key given twice is an error
AsDetails(v) ==
    CASE v.t = "obj" ->
            LET ss == Under(v, "source")
                ts == Under(v, "type")
            IN  IF Len(ss) = 1 /\ Len(ts) = 1 /\ ts[1].t = "str"
                THEN AsSource(ss[1]) ELSE [ok |-> FALSE, errors |-> <<>>]
      [] v.t = "arr" ->
            IF Len(v.items) = 2 /\ v.items[2].t = "str" THEN AsSource(v.items[1])
            ELSE [ok |-> FALSE, errors |-> <<>>]
      [] OTHER -> [ok |-> FALSE, errors |-> <<>>]

DetailsOf(j) == IF j.ok THEN AsDetails(j.val) ELSE [ok |-> FALSE, errors |-> <<>>]

\* serde_json::from_str::<ValidationErrorDetails>(json_candidate)
ParseDetails(candidate) == DetailsOf(ReadJson(candidate))

----------------------------------------------------------------------------
(* UnpaidLeaveDecisionEngine: the validation-error extractor.  A result is *)
(* an Option<Vec<ValidationError>> with the trace of the spans taken, or a *)
(* panic.                                                                  *)

Patterns == <<
    [start |-> <<LB, SRC, LB, ERRS>>, end |-> <<TYPEV, RB>>],
    [start |-> <<LB, ERRS>>, end |-> <<TYPEV, RB>>],
    [start |-> <<ERRS, LSQ>>, end |-> <<RSQ>>] >>

UnknownPath == <<"/input/unknown">>

None == [some |-> FALSE, errors |-> <<>>, panic |-> FALSE, spans |-> <<>>]
Some(errors) == [some |-> TRUE, errors |-> errors, panic |-> FALSE, spans |-> <<>>]
Panic == [some |-> FALSE, errors |-> <<>>, panic |-> TRUE, spans |-> <<>>]

\* the value after the first occurrence of key in line, up to the next
\* double quote: [found, value]
KeyValue(line, key) ==
    LET start == Find(line, <<key>>)
        value_start == start + 1
        rest == SliceFrom(line, value_start)
        q == NextQuote(rest, 1)
    IN  IF start # -1 /\ q # 0
        THEN [found |-> TRUE, value |-> Slice(line, value_start, value_start + q - 1)]
        ELSE [found |-> FALSE, value |-> <<>>]

\* one pass of the for loop of manual_extract_errors: the message and the
\* path after the line, given what they were before it
ScanLine(line, found) ==
    [message |-> IF KeyValue(line, MSGQ).found THEN KeyValue(line, MSGQ).value
                 ELSE found.message,
     path |-> IF KeyValue(line, PATHQ).found THEN KeyValue(line, PATHQ).value
              ELSE found.path]

\* the for loop of manual_extract_errors from line i on: the message and
\* the path as they stand after the last line
RECURSIVE ScanLines(_, _, _)
ScanLines(lines, i, found) ==
    IF i > Len(lines) THEN found
    ELSE ScanLines(lines, i + 1, ScanLine(lines[i], found))

\* `if !message.is_empty() { .. }`
ManualResult(r) ==
    IF r.message # <<>>
    THEN Some(<<VE(r.message, IF r.path = <<>> THEN UnknownPath ELSE r.path)>>)
    ELSE None

\* manual_extract_errors without the test for "is not one of"
manual_extract_errors_Unguarded(text) ==
    ManualResult(ScanLines(Split(text), 1, [message |-> <<>>, path |-> <<>>]))

manual_extract_errors(text) ==
    IF Contains(text, <<INOO>>)
    THEN ManualResult(ScanLines(Split(text), 1, [message |-> <<>>, path |-> <<>>]))
    ELSE None

\* `end` computed without the offset the closing pattern was searched from
CandidateEnd_Relative(search_from, relative_end, end_len) == relative_end + end_len

\* let end = search_from + relative_end + end_pattern.len()
CandidateEnd(search_from, relative_end, end_len) == search_from + relative_end + end_len

\* One pattern on the text: the span of its candidate and what became of it.
\* found: both substrings were found; start, search_from, end: the offsets
\* the code computes; panic: a slice was out of bounds.
TryPattern(text, pat) ==
    LET start == Find(text, pat.start)
        search_from == start + Len(pat.start)
        from_ok == SliceOk(text, search_from, Len(text))
        relative_end == IF from_ok THEN Find(SliceFrom(text, search_from), pat.end) ELSE -1
        end == CandidateEnd(search_from, relative_end, Len(pat.end))
        span_ok == SliceOk(text, start, end)
        found == start # -1 /\ from_ok /\ relative_end # -1
    IN  [opened |-> start # -1,
         found |-> found,
         start |-> start, search_from |-> search_from, end |-> end,
         panic |-> (start # -1 /\ ~from_ok) \/ (found /\ ~span_ok),
         parsed |-> IF found /\ span_ok THEN ParseDetails(Slice(text, start, end))
                    ELSE [ok |-> FALSE, errors |-> <<>>]]

\* the spans taken so far, with that of the pattern just tried
WithSpan(spans, k, t) ==
    IF t.opened
    THEN Append(spans, [pattern |-> k, found |-> t.found, start |-> t.start,
                        search_from |-> t.search_from, end |-> t.end])
    ELSE spans

RECURSIVE PatternLoop_ManualFirst(_, _, _)
PatternStep_ManualFirst(text, k, spans, t, manual) ==
    IF t.panic THEN [Panic EXCEPT !.spans = spans]
    ELSE IF t.found /\ manual.some THEN [manual EXCEPT !.spans = spans]
    ELSE IF t.found /\ t.parsed.ok THEN [Some(t.parsed.errors) EXCEPT !.spans = spans]
    ELSE PatternLoop_ManualFirst(text, k + 1, spans)

\* the loop trying the manual fallback before it parses the candidate
PatternLoop_ManualFirst(text, k, spans) ==
    IF k > Len(Patterns)
    THEN [manual_extract_errors(text) EXCEPT !.spans = spans]
    ELSE PatternStep_ManualFirst(text, k, WithSpan(spans, k, TryPattern(text, Patterns[k])),
                                 TryPattern(text, Patterns[k]), manual_extract_errors(text))

RECURSIVE PatternLoop(_, _, _)

\* the body of the for loop for pattern k: t is what became of the pattern,
\* manual what manual_extract_errors(text) returns
PatternStep(text, k, spans, t, manual) ==
    IF t.panic THEN [Panic EXCEPT !.spans = spans]
    ELSE IF t.found /\ t.parsed.ok THEN [Some(t.parsed.errors) EXCEPT !.spans = spans]
    ELSE IF t.found /\ manual.some THEN [manual EXCEPT !.spans = spans]
    ELSE PatternLoop(text, k + 1, spans)

\* the for loop of extract_json_from_string from pattern k on, and the
\* manual fallback after it
PatternLoop(text, k, spans) ==
    IF k > Len(Patterns)
    THEN [manual_extract_errors(text) EXCEPT !.spans = spans]
    ELSE PatternStep(text, k, WithSpan(spans, k, TryPattern(text, Patterns[k])),
                     TryPattern(text, Patterns[k]), manual_extract_errors(text))

\* the loop without the manual fallback after it: that fallback decides
\* only when no pattern's candidate was found
extract_json_from_string_NoLastResort(text) ==
    IF \E k \in 1..Len(Patterns) : TryPattern(text, Patterns[k]).found
    THEN PatternLoop(text, 1, <<>>)
    ELSE [PatternLoop(text, 1, <<>>) EXCEPT !.some = FALSE, !.errors = <<>>]

extract_json_from_string(text) == PatternLoop(text, 1, <<>>)

extract_from_error_string(error_str) == extract_json_from_string(error_str)

\* The engine's error.  kind "node": EvaluationError::NodeError, with the
\* node's id and the Debug text of its source; kind "other": any other
\* variant, with its Debug text.
NodeErr(node_id, source) == [kind |-> "node", node_id |-> node_id, text |-> source]
OtherErr(text) == [kind |-> "other", node_id |-> <<>>, text |-> text]

\* format!("{:?}", node_error.source)
SourceText(error) == error.text

\* format!("{:?}", error): the derived Debug of the whole error; a node
\* error shows its fields around the Debug text of its source
ErrorText(error) ==
    IF error.kind = "node"
    THEN <<"NodeError(NodeError { node_id: ", QUOTE>> \o error.node_id
            \o <<QUOTE, COMMA, " trace: None", COMMA, " source: ">>
            \o error.text \o <<" })">>
    ELSE error.text

extract_from_node_error(node_error) == extract_json_from_string(SourceText(node_error))

\* extract_validation_errors reading the source of a node error only
extract_validation_errors_SourceOnly(error) ==
    IF error.kind = "node" THEN extract_from_node_error(error)
    ELSE extract_from_error_string(ErrorText(error))

\* `if let Some(errors) = .. { return Some(errors); }`, then the whole error
OrWholeError(errors, error) ==
    IF errors.some \/ errors.panic THEN errors
    ELSE extract_from_error_string(ErrorText(error))

extract_validation_errors(error) ==
    OrWholeError(IF error.kind = "node" THEN extract_from_node_error(error) ELSE None,
                 error)

----------------------------------------------------------------------------
(* SpecExtract: the inputs of the extractor *)

E1 == <<LB, MSGQ, "x ", INOO, " [a]", QUOTE, COMMA,
        PATHQ, "/input/relationship", QUOTE, RB>>
E2 == <<LB, MSGQ, "bad", QUOTE, COMMA, PATHQ, "/input/situation", QUOTE, RB>>
Envelope(errors) == <<LB, SRC, LB, ERRS, LSQ>> \o errors \o <<RSQ, RB, COMMA, TYPEV, RB>>

Blocks == <<
    Envelope(E2 \o <<COMMA>> \o E2),                \* the same field reported twice
    <<LB, ERRS, LSQ, RSQ, COMMA, SRC, LB, ERRS, LSQ>> \o E1 \o <<COMMA>> \o E2
        \o <<RSQ, RB, COMMA, TYPEV, RB>>,           \* the envelope under an "errors" key
    <<LB, SRC, LB, ERRS>>,                          \* an opening, cut short
    <<COMMA, TYPEV, RB>>,                           \* a closing
    <<ERRS, LSQ>> \o E2 \o <<RSQ>>,                 \* a bare "errors" array
    <<MSGQ, "x ", INOO, " [a]", QUOTE>>,
    <<MSGQ, QUOTE>>,
    <<PATHQ, "/input/situation", QUOTE>>,
    <<PATHQ, QUOTE>>,
    <<"value ", INOO, " the options">>,
    <<COMMA>> >>

\* the ways of choosing at most n blocks, in order
Choices(n) == UNION {[1..k -> 1..Len(Blocks)] : k \in 0..n}

RECURSIVE Join(_)
\* the text made of the chosen blocks
Join(c) == IF c = <<>> THEN <<>> ELSE Blocks[Head(c)] \o Join(Tail(c))

NodeIds == <<<<"request">>, <<"x ", INOO, " y">>>>

NoErr == OtherErr(<<>>)

ExtractIdle == xop = "none" /\ xerr = NoErr /\ xdone = FALSE /\ xout = None
CoerceIdle == cin = Args(Absent, Absent, Absent, Absent) /\ cout = NotRun

\* manual_extract_errors and extract_json_from_string are given a text;
\* extract_validation_errors is given an error of either kind
InitExtract ==
    /\ xop \in {"manual", "json", "errors"}
    /\ \E c \in Choices(MaxSegs), w \in 0..Len(NodeIds) :
          /\ w > 0 => xop = "errors"
          /\ xop = "errors" => Len(c) < MaxSegs
          /\ xerr = IF w = 0 THEN OtherErr(Join(c)) ELSE NodeErr(NodeIds[w], Join(c))
    /\ xdone = FALSE
    /\ xout = None
    /\ CoerceIdle
    /\ ReqIdle

\* manual_extract_errors(text)
RunManual ==
    /\ xop = "manual" /\ ~xdone
    /\ xout' = manual_extract_errors(xerr.text)
    /\ xdone' = TRUE
    /\ UNCHANGED <<xop, xerr, coerceVars, reqVars, tableVars, metricVars>>

\* extract_json_from_string(text)
RunJson ==
    /\ xop = "json" /\ ~xdone
    /\ xout' = extract_json_from_string(xerr.text)
    /\ xdone' = TRUE
    /\ UNCHANGED <<xop, xerr, coerceVars, reqVars, tableVars, metricVars>>

\* extract_validation_errors(&zen_error)
RunErrors ==
    /\ xop = "errors" /\ ~xdone
    /\ xout' = extract_validation_errors(xerr)
    /\ xdone' = TRUE
    /\ UNCHANGED <<xop, xerr, coerceVars, reqVars, tableVars, metricVars>>

NextExtract == RunManual \/ RunJson \/ RunErrors

SpecExtract == InitExtract /\ [][NextExtract]_vars

----------------------------------------------------------------------------
(* UnpaidLeaveDecisionEngine::evaluate_unpaid_leave.  The rule engine is a *)
(* collaborator: what decision.evaluate returns is an input of the model.  *)

\* Result<UnpaidLeaveResponse, UnpaidLeaveError>
EvalOk == [kind |-> "response", errors |-> <<>>]
EvalValidation(errors) == [kind |-> "validation", errors |-> errors]
EvalZen == [kind |-> "zen", errors |-> <<>>]
EvalSerialization == [kind |-> "serialization", errors |-> <<>>]
NoEval == [kind |-> "none", errors |-> <<>>]

\* what the engine does with the request: a result document of the right
\* shape, a result document of another shape, or an evaluation error
EngineResult(shape_ok) == [ok |-> TRUE, shape_ok |-> shape_ok, error |-> NoErr]
EngineError(error) == [ok |-> FALSE, shape_ok |-> FALSE, error |-> error]

\* the match on decision.evaluate(...).await
\* `if let Some(validation_errors) = .. { Err(ValidationError(..)) } else ..`
ErrorOf(validation_errors) ==
    IF validation_errors.some THEN EvalValidation(validation_errors.errors)
    ELSE EvalZen

\* the match on decision.evaluate(...).await: the result document is
\* deserialized into UnpaidLeaveResponse, an error goes to the extractor
EvaluationOf(engine) ==
    IF engine.ok
    THEN IF engine.shape_ok THEN EvalOk ELSE EvalSerialization
    ELSE ErrorOf(extract_validation_errors(engine.error))

\* The table is parsed from the bundled JSON at every call (`?` on a parse
\* error gives SerializationError); then the engine built from it evaluates
\* the request.  decision_content: [parses, decide], decide being what the
\* rule engine returns on this table for each request.
evaluate_unpaid_leave(decision_content, request) ==
    IF ~decision_content.parses THEN EvalSerialization
    ELSE EvaluationOf(decision_content.decide[request])

----------------------------------------------------------------------------
(* EligibilityEngine::evaluate_unpaid_leave_eligibility and the metrics    *)

Reqs == 1..MaxReqs

\* "\n" in the format strings
NL == "\n"

\* A result: its kind, the literal its text starts with, the validation
\* errors it was built from, and its text as a sequence of tokens.
NoResponse == [kind |-> "none", head |-> "", lines |-> <<>>, text |-> <<>>]
\* Err(McpError): the call ends in a protocol fault, no CallToolResult
Fault(head) == [kind |-> "fault", head |-> head, lines |-> <<>>, text |-> <<head>>]
\* Ok(CallToolResult::success(..)) with the pretty-printed response
Success == [kind |-> "success", head |-> "", lines |-> <<>>, text |-> <<"{response}">>]
\* Ok(CallToolResult::error(..)): the text is head followed by rest
ErrorResult(head, lines, rest) ==
    [kind |-> "error", head |-> head, lines |-> lines, text |-> <<head>> \o rest]

\* the loop dropping an error equal to the one after it
RECURSIVE FieldLines_Distinct(_)
FieldLines_Distinct(errors) ==
    IF errors = <<>> THEN <<>>
    ELSE IF Len(errors) > 1 /\ errors[1] = errors[2] THEN FieldLines_Distinct(Tail(errors))
    ELSE <<"  - Field '">> \o Head(errors).path \o <<"': ">> \o Head(errors).message
            \o <<NL>> \o FieldLines_Distinct(Tail(errors))

\* `for error in validation_errors { msg.push_str(&format!(
\*      "  - Field '{}': {}\n", error.path, error.message)); }`
RECURSIVE FieldLines(_)
FieldLines(errors) ==
    IF errors = <<>> THEN <<>>
    ELSE <<"  - Field '">> \o Head(errors).path \o <<"': ">> \o Head(errors).message
            \o <<NL>> \o FieldLines(Tail(errors))

\* the lines fmt::Display writes for a list of validation errors
RECURSIVE DisplayLines(_)
DisplayLines(errors) ==
    IF errors = <<>> THEN <<>>
    ELSE <<"  - ">> \o Head(errors).path \o <<": ">> \o Head(errors).message
            \o <<NL>> \o DisplayLines(Tail(errors))

\* impl fmt::Display for UnpaidLeaveError; "{e}" is the text of the inner error
DisplayError(e) ==
    CASE e.kind = "validation" -> <<"Validation errors:", NL>> \o DisplayLines(e.errors)
      [] e.kind = "zen" -> <<"Decision engine error: ", "{e}">>
      [] OTHER -> <<"Serialization error: ", "{e}">>

NoTask == [state |-> "none", result |-> NoEval]

\* the handler propagating a failed join as a fault
Respond_JoinFault(joined, eval_result, pretty_ok) ==
    IF ~joined THEN Fault("Internal error: ")
    ELSE IF eval_result.kind = "response" /\ pretty_ok THEN Success
    ELSE IF eval_result.kind = "validation"
         THEN ErrorResult("Validation errors:", eval_result.errors,
                          <<NL>> \o FieldLines(eval_result.errors))
    ELSE ErrorResult("Evaluation error: ", <<>>, DisplayError(eval_result))

\* the handler reporting a failed join as an evaluation error
Respond_JoinAsEvaluation(joined, eval_result, pretty_ok) ==
    IF ~joined THEN ErrorResult("Evaluation error: ", <<>>, <<"{join_error}">>)
    ELSE IF eval_result.kind = "response" /\ pretty_ok THEN Success
    ELSE IF eval_result.kind = "response"
         THEN ErrorResult("Error serializing response: ", <<>>, <<"{e}">>)
    ELSE IF eval_result.kind = "validation"
         THEN ErrorResult("Validation errors:", eval_result.errors,
                          <<NL>> \o FieldLines(eval_result.errors))
    ELSE ErrorResult("Evaluation error: ", <<>>, DisplayError(eval_result))

\* `match result { .. }`: the response for what the blocking task gave.
\* joined: the task ran to completion; pretty_ok: to_string_pretty succeeded.
Respond(joined, eval_result, pretty_ok) ==
    IF ~joined THEN ErrorResult("Internal error: ", <<>>, <<"{join_error}">>)
    ELSE CASE eval_result.kind = "response" ->
                  IF pretty_ok THEN Success
                  ELSE ErrorResult("Error serializing response: ", <<>>, <<"{e}">>)
           [] eval_result.kind = "validation" ->
                  ErrorResult("Validation errors:", eval_result.errors,
                              <<NL>> \o FieldLines(eval_result.errors))
           [] OTHER -> ErrorResult("Evaluation error: ", <<>>, DisplayError(eval_result))

\* increment_errors() is called on every arm but the success arm
CountsError(resp) == resp.kind # "success"

\* the arguments objects the transport delivers
Payloads == {
    Args(Mother, Birth, JBool(FALSE), JNull),
    Args(JStr(Str("brother")), Birth, JStr(<<"T","r","u","e">>), JStr(<<"3">>)),
    Args(Mother, Birth, JStr(<<"m","a","y","b","e">>), JInt(1)),
    Args(Mother, Birth, JBool(TRUE), JStr(<<"x">>)),
    Args(Mother, JStr(Str("illness")), JBool(FALSE), Absent) }

\* what the rule engine may return
EngineOutcomes == {
    EngineResult(TRUE),
    EngineResult(FALSE),
    EngineError(NodeErr(NodeIds[1], Envelope(E1))),
    EngineError(NodeErr(NodeIds[1], Envelope(E2 \o <<COMMA>> \o E2))),
    EngineError(OtherErr(<<"Depth limit exceeded">>)) }

\* the same outcomes in a row, to build tables from
OutcomeList == <<
    EngineResult(TRUE),
    EngineError(NodeErr(NodeIds[1], Envelope(E1))),
    EngineResult(FALSE),
    EngineError(NodeErr(NodeIds[1], Envelope(E2 \o <<COMMA>> \o E2))),
    EngineError(OtherErr(<<"Depth limit exceeded">>)) >>

\* the UnpaidLeaveRequest built from the deserialized parameters
Request(a) == DeserializeParams(a).params
\* the requests that reach the engine
Requests == {Request(a) : a \in {p \in Payloads : DeserializeParams(p).ok}}

\* include_str!("unpaid-leave-assistance-2025.json"): a table that parses,
\* with what the rule engine decides on it for each request, or a table
\* that does not parse
Unparseable == [parses |-> FALSE, decide |-> [q \in Requests |-> EngineResult(FALSE)]]
\* table i gives outcome i to a request about a mother and the next outcome
\* to any other request
Table(i) ==
    [parses |-> TRUE,
     decide |-> [q \in Requests |->
                    IF q.relationship = Mother.s THEN OutcomeList[i]
                    ELSE OutcomeList[(i % Len(OutcomeList)) + 1]]]
Artifacts == {Table(i) : i \in 1..Len(OutcomeList)} \cup {Unparseable}

Init ==
    /\ pc = [r \in Reqs |-> "idle"]
    /\ payload = [r \in Reqs |-> Args(Absent, Absent, Absent, Absent)]
    /\ task = [r \in Reqs |-> NoTask]
    /\ response = [r \in Reqs |-> NoResponse]
    /\ artifact \in Artifacts
    /\ table_loads = 0
    /\ requests_total = 0
    /\ errors_total = 0
    /\ active_requests = 0
    /\ request_duration = 0
    /\ CoerceIdle
    /\ ExtractIdle

\* A tools/call whose arguments do not deserialize into
\* Parameters<UnpaidLeaveDirectParams>: the handler's body never runs.
Reject(r) ==
    /\ pc[r] = "idle"
    /\ \E a \in Payloads :
          /\ ~DeserializeParams(a).ok
          /\ payload' = [payload EXCEPT ![r] = a]
    /\ pc' = [pc EXCEPT ![r] = "rejected"]
    /\ response' = [response EXCEPT ![r] = Fault("failed to deserialize parameters: ")]
    /\ UNCHANGED <<task, tableVars, metricVars, coerceVars, extractVars>>

\* The handler's body up to its await: RequestTimer::new(),
\* increment_requests(), the request built, the blocking task spawned.
Enter(r) ==
    /\ pc[r] = "idle"
    /\ \E a \in Payloads :
          /\ DeserializeParams(a).ok
          /\ payload' = [payload EXCEPT ![r] = a]
    /\ active_requests' = active_requests + 1
    /\ requests_total' = requests_total + 1
    /\ task' = [task EXCEPT ![r] = [state |-> "running", result |-> NoEval]]
    /\ pc' = [pc EXCEPT ![r] = "awaiting"]
    /\ UNCHANGED <<response, tableVars, errors_total, request_duration, coerceVars, extractVars>>

\* an evaluation that answers from the table only while no other evaluation
\* has finished, and with an engine error afterwards
RunTask_Stateful(r) ==
    /\ task[r].state = "running"
    /\ task' = [task EXCEPT ![r] =
                    [state |-> "finished",
                     result |-> IF \E q \in Reqs : task[q].state = "finished" THEN EvalZen
                                ELSE evaluate_unpaid_leave(artifact, Request(payload[r]))]]
    /\ table_loads' = table_loads + 1
    /\ UNCHANGED <<pc, payload, response, artifact, metricVars, coerceVars, extractVars>>

\* The blocking task runs engine.evaluate_unpaid_leave(&request) to its end.
RunTask(r) ==
    /\ task[r].state = "running"
    /\ task' = [task EXCEPT ![r] =
                    [state |-> "finished",
                     result |-> evaluate_unpaid_leave(artifact, Request(payload[r]))]]
    /\ table_loads' = table_loads + 1
    /\ UNCHANGED <<pc, payload, response, artifact, metricVars, coerceVars, extractVars>>

\* The blocking task panics: in Runtime::new().unwrap(), before the table
\* is parsed, or in the engine, after it.
PanicTask(r) ==
    /\ task[r].state = "running"
    /\ task' = [task EXCEPT ![r] = [state |-> "panicked", result |-> NoEval]]
    /\ \E loaded \in BOOLEAN :
          table_loads' = IF loaded THEN table_loads + 1 ELSE table_loads
    /\ UNCHANGED <<pc, payload, response, artifact, metricVars, coerceVars, extractVars>>

\* the handler returning without its timer being dropped
Return_TimerForgotten(r) ==
    /\ pc[r] = "awaiting"
    /\ task[r].state \in {"finished", "panicked"}
    /\ \E pretty_ok \in BOOLEAN :
          LET resp == Respond(task[r].state = "finished", task[r].result, pretty_ok) IN
          /\ response' = [response EXCEPT ![r] = resp]
          /\ errors_total' = IF CountsError(resp) THEN errors_total + 1 ELSE errors_total
    /\ pc' = [pc EXCEPT ![r] = "done"]
    /\ UNCHANGED <<payload, task, tableVars, requests_total, active_requests,
                   request_duration, coerceVars, extractVars>>

\* The await returns: the match builds the response, counting an error on
\* every arm but success; then _timer is dropped.
Return(r) ==
    /\ pc[r] = "awaiting"
    /\ task[r].state \in {"finished", "panicked"}
    /\ \E pretty_ok \in BOOLEAN :
          LET resp == Respond(task[r].state = "finished", task[r].result, pretty_ok) IN
          /\ response' = [response EXCEPT ![r] = resp]
          /\ errors_total' = IF CountsError(resp) THEN errors_total + 1 ELSE errors_total
    /\ request_duration' = request_duration + 1
    /\ active_requests' = active_requests - 1
    /\ pc' = [pc EXCEPT ![r] = "done"]
    /\ UNCHANGED <<payload, task, tableVars, requests_total, coerceVars, extractVars>>

\* the future dropped with the gauge and the measurement left open
Cancel_TimerKept(r) ==
    /\ pc[r] = "awaiting"
    /\ pc' = [pc EXCEPT ![r] = "cancelled"]
    /\ UNCHANGED <<payload, task, response, tableVars, metricVars, coerceVars, extractVars>>

\* The transport drops the handler's future at its await: _timer is
\* dropped, the JoinHandle is dropped and the task is left running.
Cancel(r) ==
    /\ pc[r] = "awaiting"
    /\ request_duration' = request_duration + 1
    /\ active_requests' = active_requests - 1
    /\ pc' = [pc EXCEPT ![r] = "cancelled"]
    /\ UNCHANGED <<payload, task, response, tableVars, requests_total, errors_total,
                   coerceVars, extractVars>>

Next ==
    \E r \in Reqs :
        \/ Reject(r)
        \/ Enter(r)
        \/ RunTask(r)
        \/ PanicTask(r)
        \/ Return(r)
        \/ Cancel(r)

Spec == Init /\ [][Next]_vars

\* what a blocking task can end with
TaskEnds ==
    {[state |-> "finished", result |-> EvaluationOf(e)] : e \in EngineOutcomes}
        \cup {[state |-> "finished", result |-> EvalSerialization],
              [state |-> "panicked", result |-> NoEval]}

\* The blocking task of invocation r ends: the steps of Next that are
\* RunTask(r) or PanicTask(r), told by what they do to task[r].
TaskEnd(r) ==
    /\ task[r].state = "running"
    /\ \E t \in TaskEnds : task' = [task EXCEPT ![r] = t]
    /\ table_loads' \in {table_loads, table_loads + 1}
    /\ UNCHANGED <<pc, payload, response, artifact, metricVars, coerceVars, extractVars>>

\* A task given to spawn_blocking has a thread of the blocking pool of its
\* own: once spawned it runs to its end whether or not the handler's future
\* is polled, or is there at all.
SpecFair == Spec /\ \A r \in Reqs : WF_vars(TaskEnd(r))

----------------------------------------------------------------------------
(* Claims about the handler and the metrics (Spec) *)

\* the invocations the transport has made
Invoked == {r \in Reqs : pc[r] # "idle"}
\* the invocations that ran the handler's body
Entered == {r \in Reqs : pc[r] \in {"awaiting", "done", "cancelled"}}
\* the invocations the handler answered with an error result
AnsweredError == {r \in Reqs : pc[r] = "done" /\ response[r].kind = "error"}
\* the invocations that ended in a failure of any kind, MalformedInput included
Failed == {r \in Reqs : pc[r] = "rejected"} \cup AnsweredError

\* C1: every invocation of the tool, whatever its outcome (MalformedInput
\* included), increments the request counter exactly once: requests_total
\* is the number of invocations made.
C1_EveryInvocationCounted == requests_total = Cardinality(Invoked)

\* the part of C1 the code keeps: the invocations that reach the handler's
\* body are counted once each
C1_EnteredCounted == requests_total = Cardinality(Entered)

\* C2: the error counter is incremented exactly once for every request that
\* ends in a failure, whichever kind (MalformedInput included), and never
\* for a success: errors_total is the number of failed requests.
C2_EveryFailureCounted == errors_total = Cardinality(Failed)

\* the part of C2 the code keeps: one error counted for each error result
\* the handler returns, none for a success
C2_ErrorResultsCounted == errors_total = Cardinality(AnsweredError)

\* C3: the handler always returns Ok(CallToolResult), never a fault: an
\* error result when the task panicked or evaluation failed (validation
\* errors, engine error, serialization error), and a success result only
\* when the engine result was deserialized.
C3_AlwaysOkResult ==
    \A r \in Reqs :
        /\ r \in Entered => response[r].kind # "fault"
        /\ pc[r] = "done" =>
              /\ response[r].kind \in {"success", "error"}
              /\ response[r].kind = "success" =>
                    task[r].state = "finished" /\ task[r].result.kind = "response"
              /\ ( \/ task[r].state = "panicked"
                   \/ task[r].result.kind \in {"validation", "zen", "serialization"} ) =>
                    response[r].kind = "error"

\* a panic of the blocking task was answered with an error result
C3_Witness ==
    \E r \in Reqs :
        pc[r] = "done" /\ task[r].state = "panicked" /\ response[r].kind = "error"

\* the payload fails type coercion: is_single_parent is a string other than
\* "true" / "false" in any letter case, or total_children_after is a string
\* that is no number
MalformedPayload(a) ==
    \/ /\ a.is_single_parent.kind = "str"
       /\ ~EqIgnoreCase(a.is_single_parent.s, <<"t","r","u","e">>)
       /\ ~EqIgnoreCase(a.is_single_parent.s, <<"f","a","l","s","e">>)
    \/ /\ a.total_children_after.kind = "str"
       /\ ~ParseF64(a.total_children_after.s).ok

\* C4: a request whose payload fails coercion is refused before the engine
\* is invoked: its blocking task is never spawned and the call ends in the
\* deserialization fault.
C4_MalformedNeverEvaluated ==
    \A r \in Invoked :
        MalformedPayload(payload[r]) =>
            /\ task[r].state = "none"
            /\ pc[r] = "rejected"
            /\ response[r].kind = "fault"

\* is_single_parent = "maybe" was refused while another request was evaluated
C4_Witness ==
    \E r, q \in Reqs :
        /\ pc[r] = "rejected"
        /\ payload[r].is_single_parent = JStr(<<"m","a","y","b","e">>)
        /\ task[q].state = "finished"

\* what the rule engine returned for the request of invocation r
EngineOutcome(r) == artifact.decide[Request(payload[r])]
\* invocation r has returned and its blocking task ran to its end
Evaluated(r) == pc[r] = "done" /\ task[r].state = "finished"

\* C11: the failure response tells three kinds of failure apart by its text:
\* validation errors the extractor recovered give the "Validation errors:"
\* header and itemized lines; an engine error the extractor recovered
\* nothing from, and a serialization error, give one "Evaluation error: "
\* line; a blocking task that did not run to its end gives "Internal
\* error: ", and nothing else does.
C11_ThreeFailureKinds ==
    \A r \in Reqs : pc[r] = "done" =>
        LET t == response[r].text
            e == EngineOutcome(r)
        IN  /\ ( /\ Evaluated(r) /\ artifact.parses /\ ~e.ok
                 /\ extract_validation_errors(e.error).some ) =>
                    /\ response[r].kind = "error"
                    /\ SubSeq(t, 1, 2) = <<"Validation errors:", NL>>
                    /\ response[r].lines = extract_validation_errors(e.error).errors
            /\ ( /\ Evaluated(r)
                 /\ \/ ~artifact.parses
                    \/ e.ok /\ ~e.shape_ok
                    \/ ~e.ok /\ ~extract_validation_errors(e.error).some ) =>
                    /\ response[r].kind = "error"
                    /\ t[1] = "Evaluation error: "
                    /\ \A i \in 1..Len(t) : t[i] # NL
            /\ task[r].state = "panicked" =>
                    /\ response[r].kind = "error"
                    /\ t[1] = "Internal error: "
            /\ t[1] = "Internal error: " => task[r].state = "panicked"

\* one invocation answered "Internal error: " for a panic, another
\* "Evaluation error: " for an engine error nothing was recovered from
C11_Witness ==
    \E r, q \in Reqs :
        /\ pc[r] = "done" /\ task[r].state = "panicked"
        /\ response[r].text[1] = "Internal error: "
        /\ Evaluated(q) /\ artifact.parses /\ ~EngineOutcome(q).ok
        /\ response[q].text[1] = "Evaluation error: "

\* the lines of a text: the pieces between its "\n"
RECURSIVE LinesOf(_)
LinesOf(text) ==
    LET c == Find(text, <<NL>>) IN
    IF c = -1 THEN <<text>>
    ELSE <<Slice(text, 0, c)>> \o LinesOf(SliceFrom(text, c + 1))

\* the lines after the header are those of errors: one each, in list order
ListsEach(ls, errors) ==
    /\ Len(ls) = Len(errors) + 2
    /\ ls[1] = <<"Validation errors:">>
    /\ ls[Len(ls)] = <<>>
    /\ \A i \in 1..Len(errors) :
          ls[i + 1] = <<"  - Field '">> \o errors[i].path \o <<"': ">> \o errors[i].message

\* C12: when validation errors were recovered the response has, after its
\* header, exactly one line for each ValidationError of the list, in list
\* order, duplicates included, each with that entry's path and message.
C12_EveryPairListed ==
    \A r \in Reqs :
        Evaluated(r) /\ task[r].result.kind = "validation" =>
            ListsEach(LinesOf(response[r].text), task[r].result.errors)

\* a list naming the same field twice was answered with two equal lines
C12_Witness ==
    \E r \in Reqs :
        /\ Evaluated(r) /\ task[r].result.kind = "validation"
        /\ Len(task[r].result.errors) = 2
        /\ task[r].result.errors[1] = task[r].result.errors[2]
        /\ Len(LinesOf(response[r].text)) = 4

\* the blocking tasks that have ended, and those that ran to their end
EndedTasks == {r \in Reqs : task[r].state \in {"finished", "panicked"}}
FinishedTasks == {r \in Reqs : task[r].state = "finished"}

\* C13: the decision table is loaded once and never again: over any
\* sequence of requests it is parsed at most once, and a table that does
\* not parse stops the program at startup, so that no request is served.
C13_TableLoadedOnce ==
    /\ table_loads <= 1
    /\ ~artifact.parses => \A r \in Reqs : pc[r] = "idle"

\* what the code does: the table is parsed by every evaluation that runs to
\* its end, and by no more than the tasks that have ended
C13_ParsedPerEvaluation ==
    /\ Cardinality(FinishedTasks) <= table_loads
    /\ table_loads <= Cardinality(EndedTasks)

\* what a step may do to invocation r once it is cancelled, and the step
\* that cancels it
CancelledStep(r) ==
    /\ pc[r] = "awaiting" /\ pc'[r] = "cancelled" =>
          /\ active_requests' = active_requests - 1
          /\ request_duration' = request_duration + 1
          /\ errors_total' = errors_total
          /\ task'[r] = task[r]
          /\ response'[r] = NoResponse
    /\ pc[r] = "cancelled" =>
          /\ pc'[r] = "cancelled"
          /\ response'[r] = NoResponse
          /\ task'[r] # task[r] => UNCHANGED metricVars

\* C14: when the transport cancels a request whose evaluation is with the
\* blocking task, the gauge and the duration measurement opened at entry
\* are closed, the task is not stopped and runs to its end, and its result
\* is dropped: no response and no change of the error counter comes of it.
C14_Cancellation ==
    /\ [][\A r \in Reqs : CancelledStep(r)]_vars
    /\ \A r \in Reqs :
          (pc[r] = "cancelled") ~> (pc[r] = "cancelled" /\ r \in EndedTasks)

\* a cancelled invocation whose task finished after it: no response, no
\* error counted, the gauge back at 0
C14_Witness ==
    \E r \in Reqs :
        /\ pc[r] = "cancelled" /\ task[r].state = "finished"
        /\ task[r].result.kind = "zen"
        /\ response[r] = NoResponse
        /\ errors_total = 0 /\ active_requests = 0

InFlight == {r \in Reqs : pc[r] = "awaiting"}
Left == {r \in Reqs : pc[r] \in {"done", "cancelled"}}

\* C16: the gauge is the number of invocations that entered the handler and
\* have not returned or been dropped, so it is 0 when none is in flight;
\* every invocation that left, by any path, recorded one duration.
C16_GaugeBalance ==
    /\ active_requests = Cardinality(InFlight)
    /\ InFlight = {} => active_requests = 0
    /\ request_duration = Cardinality(Left)

\* one invocation returned, another was cancelled: two durations, gauge 0
C16_Witness ==
    \E r, q \in Reqs :
        /\ pc[r] = "done" /\ pc[q] = "cancelled"
        /\ active_requests = 0
        /\ request_duration = 2

----------------------------------------------------------------------------
(* Claims about the coercion (SpecCoerce) *)

RECURSIVE Pow10(_)
Pow10(n) == IF n = 0 THEN 1 ELSE 10 * Pow10(n - 1)

\* the f64 v is the number m * 10^e
F64Is(v, m, e) ==
    /\ v.cls = "num"
    /\ v.neg = (m < 0)
    /\ LET a == IF m < 0 THEN -m ELSE m
           lo == IF v.exp < e THEN v.exp ELSE e
       IN  v.mant * Pow10(v.exp - lo) = a * Pow10(e - lo)

\* the coercion has run on a payload whose other three fields are good
BoolCase ==
    /\ cout # NotRun
    /\ cin.relationship = Mother /\ cin.situation = Birth
    /\ cin.total_children_after = JInt(3)
NumCase ==
    /\ cout # NotRun
    /\ cin.relationship = Mother /\ cin.situation = Birth
    /\ cin.is_single_parent = JBool(FALSE)

\* C5: is_single_parent given as a native boolean yields that boolean; given
\* as a string it yields true / false exactly when the string is "true" /
\* "false" in any letter case; every other string is an error on that field
\* whose message is formatted with the offending string.
C5_BoolCoercion ==
    BoolCase =>
        LET v == cin.is_single_parent IN
        /\ v.kind = "bool" => cout.ok /\ cout.params.is_single_parent = v.b
        /\ v.kind = "str" /\ EqIgnoreCase(v.s, <<"t","r","u","e">>) =>
                cout.ok /\ cout.params.is_single_parent = TRUE
        /\ v.kind = "str" /\ EqIgnoreCase(v.s, <<"f","a","l","s","e">>) =>
                cout.ok /\ cout.params.is_single_parent = FALSE
        /\ ( /\ v.kind = "str"
             /\ ~EqIgnoreCase(v.s, <<"t","r","u","e">>)
             /\ ~EqIgnoreCase(v.s, <<"f","a","l","s","e">>) ) =>
                /\ ~cout.ok
                /\ cout.field = "is_single_parent"
                /\ cout.err = "invalid boolean string: "
                /\ cout.arg = v.s

\* "FALSE" was coerced to false
C5_Witness ==
    /\ BoolCase
    /\ cin.is_single_parent = JStr(<<"F","A","L","S","E">>)
    /\ cout.ok /\ cout.params.is_single_parent = FALSE

\* C6, all of it but the omitted key: a native integer or float yields that
\* number, a string str::parse accepts yields the parsed number, null yields
\* no value, and any other string is an error formatted with that string.
C6_PresentValues ==
    NumCase =>
        LET v == cin.total_children_after IN
        /\ v.kind = "int" =>
                cout.ok /\ cout.params.has_children /\ F64Is(cout.params.children, v.mant, 0)
        /\ v.kind = "float" =>
                cout.ok /\ cout.params.has_children
                        /\ F64Is(cout.params.children, v.mant, v.exp)
        /\ v.kind = "str" /\ ParseF64(v.s).ok =>
                cout.ok /\ cout.params.has_children
                        /\ cout.params.children = ParseF64(v.s).val
        /\ v.kind = "null" => cout.ok /\ ~cout.params.has_children
        /\ v.kind = "str" /\ ~ParseF64(v.s).ok =>
                /\ ~cout.ok
                /\ cout.field = "total_children_after"
                /\ cout.err = "invalid number string: "
                /\ cout.arg = v.s

\* C6: total_children_after, present or absent: as C6_PresentValues, and a
\* payload that omits the key yields "no value present" without error.
C6_NumCoercion ==
    /\ C6_PresentValues
    /\ NumCase /\ cin.total_children_after = Absent =>
            cout.ok /\ ~cout.params.has_children

----------------------------------------------------------------------------
(* Claims about the extractor (SpecExtract) *)

JsonRan == xop = "json" /\ xdone
ManualRan == xop = "manual" /\ xdone
ErrorsRan == xop = "errors" /\ xdone

\* pattern k's candidate was found in the text and parses as an envelope
Parses(text, k) ==
    TryPattern(text, Patterns[k]).found /\ TryPattern(text, Patterns[k]).parsed.ok
\* k is the first pattern, in priority order, whose candidate parses
FirstParsing(text, k) ==
    Parses(text, k) /\ \A j \in 1..(k - 1) : ~Parses(text, j)
\* a pattern before k was found, did not parse, and the manual fallback on
\* the whole text recovers an error
ManualPreempts(text, k) ==
    /\ manual_extract_errors(text).some
    /\ \E j \in 1..(k - 1) : TryPattern(text, Patterns[j]).found

\* C7 as stated: the result of extract_json_from_string is the error list of
\* the first pattern, in priority order, whose candidate fragment parses;
\* nothing produced for an earlier, unparseable pattern pre-empts it.
C7_FirstParsedWins ==
    JsonRan =>
        \A k \in 1..Len(Patterns) :
            FirstParsing(xerr.text, k) =>
                /\ xout.some
                /\ xout.errors = TryPattern(xerr.text, Patterns[k]).parsed.errors

\* C7 amended: the first pattern whose candidate parses gives the result,
\* unless an earlier pattern's candidate was found, did not parse, and the
\* manual fallback on the whole text recovered an error: then the result is
\* that manual result.
C7_FirstParsedUnlessManual ==
    JsonRan =>
        \A k \in 1..Len(Patterns) :
            FirstParsing(xerr.text, k) =>
                /\ xout.some
                /\ xout.errors =
                      IF ManualPreempts(xerr.text, k)
                      THEN manual_extract_errors(xerr.text).errors
                      ELSE TryPattern(xerr.text, Patterns[k]).parsed.errors

\* the first pattern parsed, a later pattern was found in the text too, and
\* the result is the first pattern's list of two errors
C7_Witness ==
    /\ JsonRan
    /\ FirstParsing(xerr.text, 1)
    /\ TryPattern(xerr.text, Patterns[2]).found
    /\ manual_extract_errors(xerr.text).some
    /\ xout.some /\ Len(xout.errors) = 2
    /\ xout.errors = TryPattern(xerr.text, Patterns[1]).parsed.errors

\* C8 as stated: for a node error the text of its source alone decides the
\* result; the whole error is rendered and scanned only for another error.
C8_SourceAlone ==
    ErrorsRan =>
        LET s == extract_json_from_string(SourceText(xerr))
            w == extract_json_from_string(ErrorText(xerr))
        IN  IF xerr.kind = "node"
            THEN xout.some = s.some /\ xout.errors = s.errors
            ELSE xout.some = w.some /\ xout.errors = w.errors

\* C8 amended: for a node error the strategies are run on the text of its
\* source first, and a list recovered there is the result; when nothing is
\* recovered there, or the error is no node error, the whole error is
\* rendered and scanned and that scan is the result.
C8_SourceThenWhole ==
    ErrorsRan =>
        LET s == extract_json_from_string(SourceText(xerr))
            w == extract_json_from_string(ErrorText(xerr))
        IN  IF xerr.kind = "node" /\ s.some
            THEN xout.some /\ xout.errors = s.errors
            ELSE xout.some = w.some /\ xout.errors = w.errors

\* a node error whose source gave nothing and whose whole text gave a list
C8_Witness ==
    /\ ErrorsRan
    /\ xerr.kind = "node"
    /\ ~extract_json_from_string(SourceText(xerr)).some
    /\ xout.some

\* text[i] opens a "message":" (or "path":") value that is not empty and
\* that a double quote closes inside the same comma-separated fragment
ValueAt(text, key, i) ==
    LET j == NextQuote(text, i + 1) IN
    /\ text[i] = key
    /\ j > i + 1
    /\ \A k \in (i + 1)..(j - 1) : text[k] # COMMA
\* the non-empty values found for key in the fragments of the text
ValuesOf(text, key) ==
    {SubSeq(text, i + 1, NextQuote(text, i + 1) - 1) :
        i \in {n \in 1..Len(text) : ValueAt(text, key, n)}}

\* C9: manual_extract_errors returns a list only if the text contains
\* "is not one of" and some comma-separated fragment holds a non-empty
\* "message":"..." value; the list then has exactly one error, with such a
\* message, whose path is a recovered "path":"..." value, or the sentinel
\* "/input/unknown", which it is whenever no path was recovered.
C9_ManualFallback ==
    ManualRan /\ xout.some =>
        /\ \E i \in 1..Len(xerr.text) : xerr.text[i] = INOO
        /\ Len(xout.errors) = 1
        /\ xout.errors[1].message \in ValuesOf(xerr.text, MSGQ)
        /\ \/ xout.errors[1].path \in ValuesOf(xerr.text, PATHQ)
           \/ xout.errors[1].path = <<"/input/unknown">>
        /\ ValuesOf(xerr.text, PATHQ) = {} => xout.errors[1].path = <<"/input/unknown">>

\* a message was recovered and no path: the sentinel path is used
C9_Witness ==
    /\ ManualRan /\ xout.some
    /\ ValuesOf(xerr.text, PATHQ) = {}
    /\ xout.errors[1].path = <<"/input/unknown">>

\* C10: extraction never panics, and every candidate span satisfies
\* 0 <= start < start + len(opening) <= end <= len(text), the closing
\* substring lying wholly after the end of the opening substring.
C10_SpansInBounds ==
    xdone =>
        /\ ~xout.panic
        /\ xop = "json" => \A n \in 1..Len(xout.spans) :
              LET sp == xout.spans[n]
                  pat == Patterns[sp.pattern]
              IN  /\ 0 <= sp.start
                  /\ sp.search_from = sp.start + Len(pat.start)
                  /\ sp.search_from <= Len(xerr.text)
                  /\ sp.found =>
                        /\ sp.start < sp.search_from
                        /\ sp.search_from <= sp.end - Len(pat.end)
                        /\ sp.end <= Len(xerr.text)
                        /\ SubSeq(xerr.text, sp.end - Len(pat.end) + 1, sp.end) = pat.end

\* a candidate was taken from a text in which the closing substring also
\* occurs before the opening substring
C10_Witness ==
    /\ JsonRan
    /\ \E n \in 1..Len(xout.spans) :
          /\ xout.spans[n].found
          /\ Find(xerr.text, Patterns[xout.spans[n].pattern].end) < xout.spans[n].start

\* C17: extract_json_from_string(text) returns None exactly when no
\* pattern's candidate parses as an envelope and manual_extract_errors(text)
\* returns None; wherever in the text they lie, whenever the manual fallback
\* on the text would return a result, extract_json_from_string returns one.
C17_NoneIffNothingRecovered ==
    JsonRan =>
        /\ ~xout.panic
        /\ ~xout.some <=>
              /\ \A k \in 1..Len(Patterns) : ~Parses(xerr.text, k)
              /\ ~manual_extract_errors(xerr.text).some
        /\ manual_extract_errors(xerr.text).some => xout.some

\* no opening substring in the text, and the result is that of the manual
\* fallback after the loop
C17_Witness ==
    /\ JsonRan
    /\ \A k \in 1..Len(Patterns) : ~TryPattern(xerr.text, Patterns[k]).opened
    /\ manual_extract_errors(xerr.text).some
    /\ xout.some
    /\ xout.errors = manual_extract_errors(xerr.text).errors


============================================================================
